---------------------------- MODULE Spec2Model ----------------------------
(***************************************************************************)
(* A model of the collaboration back end of INFOBoard                      *)
(* (src/collab/consumers.py): the room reconciler save_room, the room      *)
(* sessions with their broadcast group, and the replay session with its    *)
(* self-rescheduling playback loop.                                        *)
(*                                                                         *)
(* The specifications share the variables:                                 *)
(*   SpecSave    save_room calls, one after the other, on the room store   *)
(*   SpecRace    save_room calls of two sessions that interleave           *)
(*   SpecCollab  room sessions: connect, disconnect, the clients' events,  *)
(*               notify_client (SpecCollabFair adds the fairness of the    *)
(*               consumers' dispatch loops, SpecLossy log writes that fail)*)
(*   SpecReplay  one replay session and its asyncio tasks                  *)
(*               (SpecReplayFair adds the fairness of the event loop)      *)
(***************************************************************************)
EXTENDS Integers, Sequences, FiniteSets, Bags, TLC

(***************************************************************************)
(* Bounds of the model.                                                    *)
(***************************************************************************)
\* the highest element version a client submits (versions are 1..MaxVersion)
MaxVersion == 2

\* the number of events the clients of the room sessions send in one behaviour
MaxEvents == 1

\* the number of control events the observer of a replay sends in one behaviour
MaxControls == 1

RoomNames == {"r1", "r2"}
ElementIds == {"A", "B"}

\* the connections (channel names) of the room sessions
Sessions == {"c1", "c2"}
\* the users with a record (user.id is not None) and the anonymous user
Users == {"u1", "u2"}
Anonymous == "anonymous"
\* the values uuid.uuid4() returns to anonymous sessions: few, so that two
\* sessions can draw the same one
Uuids == {"x1", "x2"}
\* the display names Faker().name() returns: few, so that two pseudonyms can be
\* given the same one
Names == {"n1", "n2"}
\* the close codes a connection ends with: normal closure, and the code of line 70
CloseCodes == {1000, 3000}

\* the value of a session attribute that was never assigned
Unset == "unset"

VARIABLES
    \* ---- the room store (m.ExcalidrawRoom) ----
    rooms,      \* room_name -> [exists, elements]: the persisted snapshot
    call,       \* history: the last save_room call, its arguments, what get_or_create
                \* said (created), the snapshot it read (old), the snapshot that was
                \* persisted when it compared and wrote (before), whether it wrote
    highest,    \* history: room_name -> id -> the highest version ever persisted (0: never)
    saving,     \* connection -> the save_room call that has read and not yet written
    \* ---- the room sessions (CollaborationConsumer) and the channel layer ----
    allow_anonymous,  \* settings.ALLOW_ANONYMOUS_VISITS
    sess,       \* connection -> [state, user, room_name, authorized, user_room_id]
    groups,     \* room_name -> the connections registered in the room's group
    channel,    \* connection -> the envelopes the channel layer holds for its consumer
    outbox,     \* connection -> what was sent to the attached client, in order
    multicast,  \* history: the group_send calls, in order (an event's number is its place)
    received,   \* the number of events of clients the sessions have handled
    log,        \* the event log (m.ExcalidrawLogRecord), a record's id is its place
    \* ---- the replay session (ReplayConsumer) and its asyncio tasks ----
    replay,     \* [state, room_name, log_record_ids, replay_task, encountered]
    handler,    \* where the consumer's handler stands: [pc, then]
    tasks,      \* the bag of playback loops: [w, s, id, handle]
    controls,   \* the number of control events received
    observer,   \* what was sent to the observer since the last reset_scene, in order
    shown,      \* history: the collaborator_change entries sent to the observer
    reset_by,   \* history: the handler that sent the last reset_scene
    halted_by   \* history: the handler that cancelled the playback, until it is started again

saveVars == <<rooms, call, highest, saving>>
collabVars == <<allow_anonymous, sess, groups, channel, outbox, multicast, received>>
replayVars == <<replay, handler, tasks, controls, observer, shown, reset_by, halted_by>>
vars == <<rooms, call, highest, saving, allow_anonymous, sess, groups, channel, outbox,
          multicast, received, log, replay, handler, tasks, controls, observer, shown,
          reset_by, halted_by>>

(***************************************************************************)
(* Elements and submissions.  An element is {id, version, isDeleted}; a    *)
(* submission is the list of elements of a scene, so an id occurs at most  *)
(* once in it, and the order of the list is the client's.                  *)
(***************************************************************************)
Versions == 1..MaxVersion

Elements == [id : ElementIds, version : Versions, isDeleted : BOOLEAN]

DistinctIds(s) == \A i, j \in 1..Len(s) : i # j => s[i].id # s[j].id

Submissions ==
    {s \in UNION {[1..n -> Elements] : n \in 0..Cardinality(ElementIds)} : DistinctIds(s)}

(***************************************************************************)
(* save_room, src/collab/consumers.py:138-172                              *)
(***************************************************************************)
\* dict.get(id, default) on {e['id']: e['version'] for e in elements}: a later
\* entry of the list overwrites an earlier one with the same id (line 152, 159)
RECURSIVE old_room_versions(_, _, _)
old_room_versions(elements, id, default) ==
    IF elements = <<>> THEN default
    ELSE LET e == elements[Len(elements)]
         IN  IF e.id = id THEN e.version
             ELSE old_room_versions(SubSeq(elements, 1, Len(elements) - 1), id, default)

\* line 153 without the filter: tombstones are kept
KeepDeleted(elements) == elements

\* line 153: elements = [e for e in elements if not e.get('isDeleted', False)]
NotDeleted(elements) == SelectSeq(elements, LAMBDA e : ~e.isDeleted)

\* lines 158-163 without the early return of line 161
RECURSIVE CompareNoReturn(_, _, _)
CompareNoReturn(old, elements, differences_detected) ==
    IF elements = <<>>
    THEN [returned |-> FALSE, differences_detected |-> differences_detected]
    ELSE LET e == Head(elements)
             old_version == old_room_versions(old, e.id, -1)
         IN  CompareNoReturn(old, Tail(elements),
                             differences_detected \/ old_version < e.version)

\* lines 158-163 with <= for < in line 163: an equal version counts as a difference
RECURSIVE CompareEqualDiffers(_, _, _)
CompareEqualDiffers(old, elements, differences_detected) ==
    IF elements = <<>>
    THEN [returned |-> FALSE, differences_detected |-> differences_detected]
    ELSE LET e == Head(elements)
             old_version == old_room_versions(old, e.id, -1)
         IN  IF old_version > e.version
             THEN [returned |-> TRUE, differences_detected |-> differences_detected]
             ELSE CompareEqualDiffers(old, Tail(elements),
                                      differences_detected \/ old_version <= e.version)

\* lines 158-163 with any other version, older ones too, counted as a difference
RECURSIVE CompareUnequal(_, _, _)
CompareUnequal(old, elements, differences_detected) ==
    IF elements = <<>>
    THEN [returned |-> FALSE, differences_detected |-> differences_detected]
    ELSE LET e == Head(elements)
             old_version == old_room_versions(old, e.id, -1)
         IN  CompareUnequal(old, Tail(elements),
                            differences_detected \/ old_version # e.version)

\* lines 158-163 with the return of line 161 taken only for the first element
RECURSIVE CompareFirstOnly(_, _, _)
CompareFirstOnly(old, elements, differences_detected) ==
    IF elements = <<>>
    THEN [returned |-> FALSE, differences_detected |-> differences_detected]
    ELSE LET e == Head(elements)
             old_version == old_room_versions(old, e.id, -1)
         IN  IF old_version > e.version
             THEN [returned |-> TRUE, differences_detected |-> differences_detected]
             ELSE CompareNoReturn(old, Tail(elements),
                                  differences_detected \/ old_version < e.version)

\* lines 158-163: the loop over the submitted elements, in the order of the list
RECURSIVE CompareVersions(_, _, _)
CompareVersions(old, elements, differences_detected) ==
    IF elements = <<>>
    THEN [returned |-> FALSE, differences_detected |-> differences_detected]
    ELSE LET e == Head(elements)
             old_version == old_room_versions(old, e.id, -1)
         IN  IF old_version > e.version
             THEN [returned |-> TRUE, differences_detected |-> differences_detected]
             ELSE CompareVersions(old, Tail(elements),
                                  differences_detected \/ old_version < e.version)

\* lines 151-171 with a merge for the overwrite of lines 169-171: the persisted
\* elements whose id is not submitted are kept
ReconcileMerging(old_room, created, submitted) ==
    LET elements == NotDeleted(submitted)
        cmp == IF ~created
               THEN CompareVersions(old_room.elements, elements, FALSE)
               ELSE [returned |-> FALSE, differences_detected |-> FALSE]
        write == ~cmp.returned /\ cmp.differences_detected
        kept == SelectSeq(old_room.elements,
                          LAMBDA o : \A i \in 1..Len(elements) : elements[i].id # o.id)
    IN  [written |-> write,
         room |-> [exists |-> TRUE,
                   elements |-> IF write THEN elements \o kept ELSE old_room.elements]]

\* lines 151-171: what save_room leaves in the store for the room.  The result
\* is the room's record after the call and whether upsert_room was called.
Reconcile(old_room, created, submitted) ==
    LET elements == NotDeleted(submitted)
        cmp == IF ~created
               THEN CompareVersions(old_room.elements, elements, FALSE)
               ELSE [returned |-> FALSE, differences_detected |-> FALSE]
        write == ~cmp.returned /\ cmp.differences_detected
    IN  [written |-> write,
         room |-> [exists |-> TRUE,
                   elements |-> IF write THEN elements ELSE old_room.elements]]

\* the history of the highest version persisted per id, after the snapshot `elements`
Raise(high, elements) ==
    [id \in ElementIds |->
        LET v == old_room_versions(elements, id, 0)
        IN  IF v > high[id] THEN v ELSE high[id]]

\* get_or_create (line 151) creates a missing Room record with no elements
save_room(room_name, elements) ==
    LET created == ~rooms[room_name].exists
        old_room == [exists |-> TRUE,
                     elements |-> IF created THEN <<>> ELSE rooms[room_name].elements]
        res == Reconcile(old_room, created, elements)
    IN  /\ rooms' = [rooms EXCEPT ![room_name] = res.room]
        /\ call' = [op |-> "save_room", room_name |-> room_name, elements |-> elements,
                    created |-> created, old |-> old_room.elements,
                    before |-> old_room.elements, written |-> res.written]
        /\ highest' = [highest EXCEPT ![room_name] = Raise(@, res.room.elements)]
        /\ UNCHANGED <<saving, collabVars, log, replayVars>>

NoCall == [op |-> "none", room_name |-> "r1", elements |-> <<>>,
           created |-> FALSE, old |-> <<>>, before |-> <<>>, written |-> FALSE]

\* no save_room call is under way
NotSaving == [busy |-> FALSE, room_name |-> "r1", elements |-> <<>>,
              created |-> FALSE, old |-> <<>>]

\* no connection yet: no session attribute is assigned, the groups are empty
NewSession == [state |-> "new", user |-> Anonymous, room_name |-> "r1",
               authorized |-> FALSE, user_room_id |-> Unset]

SessionsIdle ==
    /\ sess = [c \in Sessions |-> NewSession]
    /\ groups = [r \in RoomNames |-> {}]
    /\ channel = [c \in Sessions |-> <<>>]
    /\ outbox = [c \in Sessions |-> <<>>]
    /\ multicast = <<>>
    /\ received = 0

\* the attributes of a replay consumer before connect
NewReplay == [state |-> "new", room_name |-> "r1", log_record_ids |-> <<>>,
              replay_task |-> Unset, encountered |-> [p \in {} |-> Unset]]

ReplayIdle ==
    /\ replay = NewReplay
    /\ handler = [pc |-> "idle", then |-> "none"]
    /\ tasks = EmptyBag
    /\ controls = 0
    /\ observer = <<>>
    /\ shown = {}
    /\ reset_by = "none"
    /\ halted_by = "none"

\* a room either has no record yet, or was provisioned (by connect's auth_room)
\* with no elements
InitSave ==
    /\ rooms \in [RoomNames -> {[exists |-> FALSE, elements |-> <<>>],
                                [exists |-> TRUE, elements |-> <<>>]}]
    /\ call = NoCall
    /\ saving = [c \in Sessions |-> NotSaving]
    /\ highest = [r \in RoomNames |-> [id \in ElementIds |-> 0]]
    /\ allow_anonymous = FALSE
    /\ SessionsIdle
    /\ log = <<>>
    /\ ReplayIdle

\* the room whose sequence of save_room calls SpecSave follows
SavedRooms == {"r1"}

SaveNext == \E room_name \in SavedRooms, elements \in Submissions :
                save_room(room_name, elements)

SpecSave == InitSave /\ [][SaveNext]_vars

(***************************************************************************)
(* save_room calls of two sessions on one room.  A call gives way to other *)
(* handlers where it awaits the store: at get_or_create_room (line 151)    *)
(* and at upsert_room (line 169); what lies between runs without a break.  *)
(***************************************************************************)
\* the submissions of the two sessions: one live element each
Updates == {s \in Submissions : Len(s) = 1 /\ \A i \in 1..Len(s) : ~s[i].isDeleted}

\* line 151: get_or_create_room returns the room's record as it is now, and
\* creates it when there is none
save_room_read(c, room_name, elements) ==
    /\ ~saving[c].busy
    /\ saving' = [saving EXCEPT ![c] =
          [busy |-> TRUE, room_name |-> room_name, elements |-> elements,
           created |-> ~rooms[room_name].exists,
           old |-> IF rooms[room_name].exists THEN rooms[room_name].elements ELSE <<>>]]
    /\ rooms' = [rooms EXCEPT ![room_name].exists = TRUE]
    /\ UNCHANGED <<call, highest, collabVars, log, replayVars>>

\* lines 152-172: the comparison with the record that was read, and the
\* upsert when the submission is accepted
save_room_write(c) ==
    /\ saving[c].busy
    /\ LET room_name == saving[c].room_name
           old_room == [exists |-> TRUE, elements |-> saving[c].old]
           res == Reconcile(old_room, saving[c].created, saving[c].elements)
           after == IF res.written THEN res.room.elements ELSE rooms[room_name].elements
       IN  /\ rooms' = [rooms EXCEPT ![room_name].elements = after]
           /\ call' = [op |-> "save_room", room_name |-> room_name,
                       elements |-> saving[c].elements, created |-> saving[c].created,
                       old |-> saving[c].old, before |-> rooms[room_name].elements,
                       written |-> res.written]
           /\ highest' = [highest EXCEPT ![room_name] = Raise(@, after)]
    /\ saving' = [saving EXCEPT ![c] = NotSaving]
    /\ UNCHANGED <<collabVars, log, replayVars>>

RaceNext ==
    \/ \E c \in Sessions, room_name \in SavedRooms, elements \in Updates :
          save_room_read(c, room_name, elements)
    \/ \E c \in Sessions : save_room_write(c)

SpecRace == InitSave /\ [][RaceNext]_vars

(***************************************************************************)
(* The room sessions, src/collab/consumers.py:35-193.  A handler runs to   *)
(* its end before the session's consumer takes its next message; the       *)
(* handlers of different sessions interleave.                              *)
(***************************************************************************)
\* the identity provider (draw.utils): a user is authenticated when it is a
\* user with a record, not the anonymous user of an unauthenticated request
user_is_authenticated(user) == user # Anonymous

\* the pseudonym of an identity in a room (draw.utils.user_id_for_room and
\* CustomUser.id_for_room): a function of the identity and the room name that
\* maps different arguments to different pseudonyms
user_id_for_room(uid, room_name) == <<uid, room_name>>

\* line 56 with the negation of ALLOW_ANONYMOUS_VISITS lost
RefusedWhenAllowed(allow, authenticated, authorized) ==
    allow /\ ~authenticated /\ ~authorized

\* line 56 with the test of authenticated lost: whoever is not authorized for
\* the room is refused
RefusedUnauthorized(allow, authenticated, authorized) ==
    ~allow /\ ~authorized

\* line 56: the admission check of connect
Refused(allow, authenticated, authorized) ==
    ~allow /\ ~authenticated /\ ~authorized

\* lines 72-74 with every session given a random pseudonym
RandomRoomId(user, room_name, uuid) == user_id_for_room(uuid, room_name)

\* lines 72-74: self.user_room_id
UserRoomId(user, room_name, uuid) ==
    IF user # Anonymous
    THEN user_id_for_room(user, room_name)
    ELSE user_id_for_room(uuid, room_name)

\* what a session sends to its client: a notification (ev is the number of the
\* multicast event it forwards, 0 for one of the session's own) or the close
Sent(eventtype, ev, code) == [eventtype |-> eventtype, ev |-> ev, code |-> code]

\* channel_layer.group_send: the envelope is put on the channel of every
\* connection registered in the group; a channel whose consumer has gone is
\* not read any more
GroupSend(ch, members, envelope) ==
    [c \in Sessions |->
        IF c \in members /\ sess[c].state = "open" THEN Append(ch[c], envelope) ELSE ch[c]]

\* lines 174-185: send_event of session c.  The result is the channels and the
\* history of multicasts after it.
send_event(c, eventtype, args) ==
    LET members == groups[sess[c].room_name]
        n == Len(multicast) + 1
    IN  [channel |-> GroupSend(channel, members, [sender |-> c, ev |-> n]),
         multicast |-> Append(multicast,
                              [sender |-> c, eventtype |-> eventtype,
                               room_name |-> sess[c].room_name,
                               group |-> members, args |-> args])]

\* line 192 without the comparison
ForwardsAll(event, c) == TRUE

\* line 192: event['sender'] != self.channel_name
Forwards(event, c) == event.sender # c

\* lines 187-193: the consumer of c takes the next envelope of its channel
notify_client(c) ==
    /\ sess[c].state = "open"
    /\ channel[c] # <<>>
    /\ LET event == Head(channel[c])
       IN  /\ channel' = [channel EXCEPT ![c] = Tail(@)]
           /\ outbox' = [outbox EXCEPT ![c] =
                 IF Forwards(event, c)
                 THEN Append(@, Sent(multicast[event.ev].eventtype, event.ev, 0))
                 ELSE @]
    /\ UNCHANGED <<saveVars, allow_anonymous, sess, groups, multicast, received, log,
                   replayVars>>

\* lines 43-77: connect.  auth_room creates the Room record when there is
\* none.  A refused connection is accepted, told login_required and ended
\* with code 3000 (disconnect(3000) broadcasts nothing, line 84).
connect(c, user, room_name, authorized, uuid) ==
    /\ sess[c].state = "new"
    /\ rooms' = [rooms EXCEPT ![room_name].exists = TRUE]
    /\ IF Refused(allow_anonymous, user_is_authenticated(user), authorized)
       THEN /\ sess' = [sess EXCEPT ![c] =
                  [state |-> "rejected", user |-> user, room_name |-> room_name,
                   authorized |-> authorized, user_room_id |-> Unset]]
            /\ outbox' = [outbox EXCEPT ![c] =
                  @ \o <<Sent("login_required", 0, 0), Sent("close", 0, 3000)>>]
            /\ UNCHANGED groups
       ELSE /\ sess' = [sess EXCEPT ![c] =
                  [state |-> "open", user |-> user, room_name |-> room_name,
                   authorized |-> authorized,
                   user_room_id |-> UserRoomId(user, room_name, uuid)]]
            /\ groups' = [groups EXCEPT ![room_name] = @ \cup {c}]
            /\ UNCHANGED outbox
    /\ UNCHANGED <<call, highest, saving, allow_anonymous, channel, multicast, received, log,
                   replayVars>>

\* line 84 with == for !=
LeaveBroadcastInverted(code) == code = 3000

\* line 84: the leave broadcast is skipped for the code of a refused connection
LeaveBroadcast(code) == code # 3000

\* lines 79-88: disconnect, called when the connection of c has ended with
\* `code`.  Reading self.user_room_id of a session that was refused (the
\* attribute was never assigned) raises before send_event is called.
disconnect(c, code) ==
    /\ sess[c].state \in {"open", "rejected"}
    /\ IF LeaveBroadcast(code) /\ sess[c].user_room_id # Unset
       THEN LET sent == send_event(c, "collaborator_left", sess[c].user_room_id)
            IN  /\ multicast' = sent.multicast
                /\ channel' = [sent.channel EXCEPT ![c] = <<>>]
                /\ groups' = [groups EXCEPT ![sess[c].room_name] = @ \ {c}]
       ELSE /\ channel' = [channel EXCEPT ![c] = <<>>]
            /\ UNCHANGED <<multicast, groups>>
    /\ sess' = [sess EXCEPT ![c].state = "closed"]
    /\ UNCHANGED <<saveVars, allow_anonymous, outbox, received, log, replayVars>>

\* the element collections the clients send in elements_changed and full_sync
Scenes == {s \in Submissions :
             Len(s) = 1 /\ \A i \in 1..Len(s) : s[i] = [id |-> "A", version |-> 1,
                                                          isDeleted |-> FALSE]}

\* lines 111-113, 134-136 with the broadcast made to wait for the log write
GatherGated(ok, c, eventtype, args) ==
    IF ok THEN send_event(c, eventtype, args)
    ELSE [channel |-> channel, multicast |-> multicast]

\* lines 111-113, 134-136: asyncio.gather runs the log write and send_event
\* as two tasks.  When the write raises (ok is FALSE), gather hands the
\* exception to the handler and leaves the send_event task running: the
\* result, the channels and multicasts after send_event, is the same.
gather(ok, c, eventtype, args) == send_event(c, eventtype, args)

\* an ExcalidrawLogRecord as the handlers build it (lines 101-107, 128-133)
ExcalidrawLogRecord(room_name, event_type, user_pseudonym, created_at, content) ==
    [room_name |-> room_name, event_type |-> event_type,
     user_pseudonym |-> user_pseudonym, created_at |-> created_at, content |-> content]

\* lines 124-136: elements_changed: the event is multicast and one log record
\* is saved (created_at is the time of the save); ok: the save succeeds
elements_changed(c, eventtype, elements, ok) ==
    /\ sess[c].state = "open"
    /\ received < MaxEvents
    /\ received' = received + 1
    /\ LET sent == gather(ok, c, eventtype, elements)
       IN  /\ multicast' = sent.multicast
           /\ channel' = sent.channel
    /\ log' = IF ok
              THEN Append(log, ExcalidrawLogRecord(sess[c].room_name, eventtype,
                                                   sess[c].user_room_id, Len(log) + 1,
                                                   elements))
              ELSE log
    /\ UNCHANGED <<saveVars, allow_anonymous, sess, groups, outbox, replayVars>>

\* the batches of change records the clients send in collaborator_change: a
\* change holds its content (the pointer), the username, and a time or none
Batches ==
    {<<[pointer |-> 1, username |-> "ann"]>>,
     <<[pointer |-> 1, username |-> "ann"], [pointer |-> 2, username |-> "ann", time |-> 7]>>}

\* lines 98-99 without the removal of username and time
Unstripped(change) == change

\* lines 98-99: del change['username']; change.pop('time', None)
Stripped(change) == [k \in DOMAIN change \ {"username", "time"} |-> change[k]]

\* line 100: the time the client gave when there is one, else now()
CreatedAt(change, now) == IF "time" \in DOMAIN change THEN change.time ELSE now

\* lines 95, 110 with the first change of the batch for the last
collaborator_to_send_first(changes, user_room_id) ==
    [k \in DOMAIN changes[1] \cup {"userRoomId"} |->
        IF k = "userRoomId" THEN user_room_id ELSE changes[1][k]]

\* lines 95, 110: a deep copy of the last change of the batch, taken before
\* the loop of lines 97-108 strips the changes, with userRoomId set
collaborator_to_send(changes, user_room_id) ==
    [k \in DOMAIN changes[Len(changes)] \cup {"userRoomId"} |->
        IF k = "userRoomId" THEN user_room_id ELSE changes[Len(changes)][k]]

\* lines 90-113: collaborator_change: one log record per change is created in
\* one bulk_create, and the copy of the last change is multicast
collaborator_change(c, changes, ok) ==
    /\ sess[c].state = "open"
    /\ received < MaxEvents
    /\ received' = received + 1
    /\ LET records == [i \in 1..Len(changes) |->
                         ExcalidrawLogRecord(sess[c].room_name, "collaborator_change",
                                             sess[c].user_room_id,
                                             CreatedAt(changes[i], Len(log) + i),
                                             Stripped(changes[i]))]
           sent == gather(ok, c, "collaborator_change",
                          <<collaborator_to_send(changes, sess[c].user_room_id)>>)
       IN  /\ multicast' = sent.multicast
           /\ channel' = sent.channel
           /\ log' = IF ok THEN log \o records ELSE log
    /\ UNCHANGED <<saveVars, allow_anonymous, sess, groups, outbox, replayVars>>

\* lines 119-122 with the gather that is commented out: full_sync also runs
\* save_room on the elements
full_sync_and_save_room(c, eventtype, elements, ok) ==
    /\ sess[c].state = "open"
    /\ received < MaxEvents
    /\ received' = received + 1
    /\ LET sent == gather(ok, c, eventtype, elements)
       IN  /\ multicast' = sent.multicast
           /\ channel' = sent.channel
    /\ log' = IF ok
              THEN Append(log, ExcalidrawLogRecord(sess[c].room_name, eventtype,
                                                   sess[c].user_room_id, Len(log) + 1,
                                                   elements))
              ELSE log
    /\ rooms' = [rooms EXCEPT ![sess[c].room_name] = Reconcile(@, FALSE, elements).room]
    /\ UNCHANGED <<call, highest, saving, allow_anonymous, sess, groups, outbox, replayVars>>

\* lines 115-122: full_sync only calls elements_changed
full_sync(c, eventtype, elements, ok) == elements_changed(c, eventtype, elements, ok)

\* the snapshot a room has from earlier sessions
Snapshot == <<[id |-> "B", version |-> 1, isDeleted |-> FALSE]>>

\* the room r1 has been saved before, the room r2 has no record yet
InitCollab ==
    /\ rooms = [r \in RoomNames |-> IF r = "r1" THEN [exists |-> TRUE, elements |-> Snapshot]
                                     ELSE [exists |-> FALSE, elements |-> <<>>]]
    /\ call = NoCall
    /\ saving = [c \in Sessions |-> NotSaving]
    /\ highest = [r \in RoomNames |-> [id \in ElementIds |-> 0]]
    /\ allow_anonymous \in BOOLEAN
    /\ SessionsIdle
    /\ log = <<>>
    /\ ReplayIdle

\* one step of the room sessions, for connections of the users `users`, with
\* the random values `uuids`, and clients that send the events `eventtypes`
\* and the collaborator_change batches `batches`, and a data base whose log
\* writes end as `oks` tells (TRUE: written, FALSE: the write raises)
CollabStep(users, uuids, eventtypes, batches, oks) ==
    \/ \E c \in Sessions, user \in users, room_name \in RoomNames,
          authorized \in BOOLEAN, uuid \in uuids :
          connect(c, user, room_name, authorized, uuid)
    \/ \E c \in Sessions, code \in CloseCodes : disconnect(c, code)
    \/ \E c \in Sessions, eventtype \in eventtypes, elements \in Scenes, ok \in oks :
          IF eventtype = "full_sync"
          THEN full_sync(c, eventtype, elements, ok)
          ELSE elements_changed(c, eventtype, elements, ok)
    \/ \E c \in Sessions, changes \in batches, ok \in oks :
          collaborator_change(c, changes, ok)
    \/ \E c \in Sessions : notify_client(c)

\* The specification of admission and of what the handlers leave in the
\* stores: every user, clients that send full_sync and collaborator_change.
CollabNext ==
    CollabStep(Users \cup {Anonymous}, Uuids, {"full_sync"}, Batches, {TRUE})

SpecCollab == InitCollab /\ [][CollabNext]_vars

\* The specification of delivery: the dispatch loop of a consumer takes every
\* envelope of its channel as long as the connection is open.  Which user a
\* connection belongs to and which of the two element events is sent do not
\* bear on delivery: one known user, one random value and one event type.
FairNext ==
    CollabStep({"u1", Anonymous}, {"x1"}, {"elements_changed"},
               {changes \in Batches : Len(changes) = 1}, {TRUE})

SpecCollabFair ==
    InitCollab /\ [][FairNext]_vars /\ \A c \in Sessions : WF_vars(notify_client(c))

\* The specification of failing log writes: the sessions of one known user,
\* with a data base whose log writes can raise.
LossyNext ==
    CollabStep({"u1"}, {"x1"}, {"elements_changed", "full_sync"}, Batches, BOOLEAN)

SpecLossy == InitCollab /\ [][LossyNext]_vars

(***************************************************************************)
(* The replay session, src/collab/consumers.py:196-294.  The handlers of   *)
(* the consumer (connect, the three control events, disconnect) run one    *)
(* after the other; the playback loop runs in asyncio tasks of its own,    *)
(* which interleave with the handlers and with each other wherever the     *)
(* code awaits the data base, a task, or a delay.  Sending to the observer *)
(* happens in the order of the send_json calls.                            *)
(***************************************************************************)
LogRecord(room_name, event_type, user_pseudonym, created_at) ==
    [room_name |-> room_name, event_type |-> event_type,
     user_pseudonym |-> user_pseudonym, created_at |-> created_at, content |-> <<>>]

\* the event logs a replay starts from: none, and one with the records of two
\* rooms interleaved, a pseudonym that occurs twice, and created_at values
\* (line 100: client-supplied) that do not follow the order of insertion
ReplayLogs ==
    {<<>>,
     <<LogRecord("r1", "collaborator_change", user_id_for_room("u1", "r1"), 3),
       LogRecord("r2", "full_sync", user_id_for_room("u2", "r2"), 1),
       LogRecord("r1", "elements_changed", user_id_for_room("x1", "r1"), 2),
       LogRecord("r1", "collaborator_change", user_id_for_room("u1", "r1"), 1)>>}

\* lines 198-203: the ids of the room's records, ordered by id
get_log_record_ids_for_room(room_name) ==
    SelectSeq([i \in 1..Len(log) |-> i], LAMBDA i : log[i].room_name = room_name)

\* a message to the observer: id is the id of the replayed record (0: none)
Message(eventtype, id, username, userRoomId) ==
    [eventtype |-> eventtype, id |-> id, username |-> username, userRoomId |-> userRoomId]

Notice(eventtype) == Message(eventtype, 0, Unset, Unset)

\* send_json of the replay consumer; `observer` keeps what was sent since the
\* last reset_scene.  Nothing reaches an observer whose connection has ended.
SendJson(msg) ==
    IF replay.state # "open" THEN observer
    ELSE IF msg.eventtype = "reset_scene" THEN <<msg>>
    ELSE Append(observer, msg)

\* a playback loop: the wait_then_send task (w: ready, shield, sleep, or
\* cancelled while the shielded send goes on) with the send_next_event task
\* it shields (s: none, ready, fetching the record `id`); handle: the task
\* is the one self.replay_task refers to
Loop(w, s, id, handle) == [w |-> w, s |-> s, id |-> id, handle |-> handle]

Add(B, t) == B (+) SetToBag({t})
Remove(B, t) == B (-) SetToBag({t})

\* self.replay_task is assigned another task: no loop of B is referred to
Unreferenced(B) ==
    LET S == BagToSet(B)
        off(t) == [t EXCEPT !.handle = FALSE]
        on(t) == [t EXCEPT !.handle = TRUE]
    IN  [u \in {off(t) : t \in S} |->
            (IF u \in S THEN B[u] ELSE 0) + (IF on(u) \in S THEN B[on(u)] ELSE 0)]

\* self.replay_task.cancel(): the task replay_task refers to, when it has not
\* finished, gets a CancelledError where it waits; the send_next_event task
\* under asyncio.shield (line 290) is not cancelled with it
Cancel(B) ==
    LET H == {t \in BagToSet(B) : t.handle}
    IN  IF H = {} THEN B
        ELSE LET t == CHOOSE t \in H : TRUE
             IN  IF t.w = "shield"
                 THEN Add(Remove(B, t), Loop("cancelled", t.s, t.id, FALSE))
                 ELSE Remove(B, t)

\* self.replay_task = asyncio.create_task(self.wait_then_send()), lines 253, 292
CreateTask(B) == Add(Unreferenced(B), Loop("ready", "none", 0, TRUE))

\* replay_task after its task has ended or was cancelled: the attribute stays
Ended(task) == IF task = Unset THEN Unset ELSE "done"

\* lines 209-226: connect.  A user who is not staff is turned away; for staff
\* the name generator is set up and, after the delay, restart_replay runs:
\* there is no replay_task yet, init_replay sends reset_scene and asks for
\* the record ids.
replay_connect(room_name, staff) ==
    /\ replay.state = "new"
    /\ IF ~staff
       THEN /\ replay' = [replay EXCEPT !.state = "rejected"]
            /\ UNCHANGED <<handler, observer>>
       ELSE /\ replay' = [replay EXCEPT !.state = "open", !.room_name = room_name]
            /\ observer' = <<Notice("reset_scene")>>
            /\ handler' = [pc |-> "init", then |-> "start"]
    /\ reset_by' = IF staff THEN "restart_replay" ELSE reset_by
    /\ UNCHANGED <<saveVars, collabVars, log, tasks, controls, shown, halted_by>>

\* lines 243-247 and what follows init_replay in its caller: the ids arrive
\* and are assigned.  In restart_replay, start_replay follows (line 266),
\* which runs init_replay once more when the list is empty (lines 251-252);
\* then the playback task is created and start_replay is sent (lines 253-254).
init_replay_done ==
    /\ handler.pc = "init"
    /\ LET ids == get_log_record_ids_for_room(replay.room_name)
       IN  IF handler.then = "start" /\ ids = <<>>
           THEN /\ replay' = [replay EXCEPT !.log_record_ids = ids]
                /\ observer' = SendJson(Notice("reset_scene"))
                /\ handler' = [pc |-> "init", then |-> "create"]
                /\ UNCHANGED tasks
           ELSE /\ replay' = [replay EXCEPT !.log_record_ids = ids,
                                            !.replay_task = "live"]
                /\ tasks' = CreateTask(tasks)
                /\ observer' = SendJson(Notice("start_replay"))
                /\ handler' = [pc |-> "idle", then |-> "none"]
    /\ UNCHANGED <<saveVars, collabVars, log, controls, shown, reset_by, halted_by>>

\* the consumer takes the next message of an open connection
Receives ==
    /\ replay.state = "open"
    /\ handler.pc = "idle"

\* lines 249-254: the control event start_replay
start_replay ==
    /\ Receives
    /\ controls < MaxControls
    /\ controls' = controls + 1
    /\ IF replay.log_record_ids = <<>>
       THEN /\ observer' = SendJson(Notice("reset_scene"))
            /\ handler' = [pc |-> "init", then |-> "create"]
            /\ UNCHANGED <<replay, tasks>>
       ELSE /\ replay' = [replay EXCEPT !.replay_task = "live"]
            /\ tasks' = CreateTask(tasks)
            /\ observer' = SendJson(Notice("start_replay"))
            /\ UNCHANGED handler
    /\ reset_by' = IF replay.log_record_ids = <<>> THEN "start_replay" ELSE reset_by
    /\ halted_by' = "none"
    /\ UNCHANGED <<saveVars, collabVars, log, shown>>

\* lines 256-260: the control event pause_replay
pause_replay ==
    /\ Receives
    /\ controls < MaxControls
    /\ controls' = controls + 1
    /\ IF replay.replay_task # Unset
       THEN /\ tasks' = Cancel(tasks)
            /\ replay' = [replay EXCEPT !.replay_task = "done"]
            /\ observer' = SendJson(Notice("pause_replay"))
            /\ halted_by' = "pause_replay"
       ELSE UNCHANGED <<tasks, replay, observer, halted_by>>
    /\ UNCHANGED <<saveVars, collabVars, log, handler, shown, reset_by>>

\* lines 262-266: the control event restart_replay, up to the await of the ids
restart_replay ==
    /\ Receives
    /\ controls < MaxControls
    /\ controls' = controls + 1
    /\ tasks' = IF replay.replay_task # Unset THEN Cancel(tasks) ELSE tasks
    /\ replay' = [replay EXCEPT !.replay_task = Ended(@)]
    /\ observer' = SendJson(Notice("reset_scene"))
    /\ handler' = [pc |-> "init", then |-> "start"]
    /\ reset_by' = "restart_replay"
    /\ halted_by' = "none"
    /\ UNCHANGED <<saveVars, collabVars, log, shown>>

\* lines 237-241: disconnect
replay_disconnect ==
    /\ Receives
    /\ tasks' = IF replay.replay_task # Unset THEN Cancel(tasks) ELSE tasks
    /\ replay' = [replay EXCEPT !.state = "closed", !.replay_task = Ended(@)]
    /\ halted_by' = IF replay.replay_task # Unset THEN "disconnect" ELSE halted_by
    /\ UNCHANGED <<saveVars, collabVars, log, handler, controls, observer, shown, reset_by>>

\* lines 286-294: a wait_then_send task starts.  With ids left it awaits the
\* shielded send_next_event, which is a task of its own and starts later;
\* with none it sends pause_replay and ends.
wait_then_send(t) ==
    /\ t.w = "ready"
    /\ IF replay.log_record_ids # <<>>
       THEN /\ tasks' = Add(Remove(tasks, t), Loop("shield", "ready", 0, t.handle))
            /\ UNCHANGED <<replay, observer>>
       ELSE /\ tasks' = Remove(tasks, t)
            /\ replay' = [replay EXCEPT !.replay_task = IF t.handle THEN "done" ELSE @]
            /\ observer' = SendJson(Notice("pause_replay"))
    /\ UNCHANGED <<saveVars, collabVars, log, handler, controls, shown, reset_by, halted_by>>

\* lines 269-270: send_next_event starts: it pops the first id and asks the
\* data base for the record.  pop from an empty list raises: the task ends,
\* and with it the wait_then_send task that awaits it.
pop_next_event(t) ==
    /\ t.s = "ready"
    /\ IF replay.log_record_ids # <<>>
       THEN /\ replay' = [replay EXCEPT !.log_record_ids = Tail(@)]
            /\ tasks' = Add(Remove(tasks, t),
                            [t EXCEPT !.s = "fetching", !.id = Head(replay.log_record_ids)])
       ELSE /\ tasks' = Remove(tasks, t)
            /\ replay' = [replay EXCEPT !.replay_task = IF t.handle THEN "done" ELSE @]
    /\ UNCHANGED <<saveVars, collabVars, log, handler, controls, observer, shown, reset_by, halted_by>>

\* line 281 with a name generated for every record
FreshName(encountered, pseudonym, fresh) == fresh

\* line 281: self.encountered_user_pseudonyms[record.user_pseudonym], a
\* defaultdict that calls faker.name() for a pseudonym it has not seen
DisplayName(encountered, pseudonym, fresh) ==
    IF pseudonym \in DOMAIN encountered THEN encountered[pseudonym] ELSE fresh

\* lines 270-284: the record has arrived and is sent in its wire shape; then
\* the wait_then_send task that awaits the send, unless cancelled, goes on to
\* the delay of line 291
send_next_event(t, fresh) ==
    /\ t.s = "fetching"
    /\ LET record == log[t.id]
           known == replay.encountered
           name == DisplayName(known, record.user_pseudonym, fresh)
       IN  IF record.event_type = "collaborator_change"
           THEN LET msg == Message("collaborator_change", t.id, name, record.user_pseudonym)
                IN  /\ observer' = SendJson(msg)
                    /\ shown' = IF replay.state = "open" THEN shown \cup {msg} ELSE shown
                    /\ replay' = [replay EXCEPT !.encountered =
                          [p \in DOMAIN known \cup {record.user_pseudonym} |->
                              IF p = record.user_pseudonym THEN name ELSE known[p]]]
           ELSE /\ observer' = SendJson(Message(record.event_type, t.id, Unset, Unset))
                /\ UNCHANGED <<shown, replay>>
    /\ tasks' = IF t.w = "shield"
                THEN Add(Remove(tasks, t), Loop("sleep", "none", 0, t.handle))
                ELSE Remove(tasks, t)
    /\ UNCHANGED <<saveVars, collabVars, log, handler, controls, reset_by, halted_by>>

\* lines 291-292 without line 292: the delay is over and the loop ends
reschedule_dropped(t) ==
    /\ t.w = "sleep"
    /\ tasks' = Remove(tasks, t)
    /\ replay' = [replay EXCEPT !.replay_task = IF t.handle THEN "done" ELSE @]
    /\ UNCHANGED <<saveVars, collabVars, log, handler, controls, observer, shown, reset_by, halted_by>>

\* lines 291-292: the delay is over, the loop schedules its next round
reschedule(t) ==
    /\ t.w = "sleep"
    /\ tasks' = CreateTask(Remove(tasks, t))
    /\ replay' = [replay EXCEPT !.replay_task = "live"]
    /\ UNCHANGED <<saveVars, collabVars, log, handler, controls, observer, shown, reset_by, halted_by>>

StoreIdle ==
    /\ rooms = [r \in RoomNames |-> [exists |-> FALSE, elements |-> <<>>]]
    /\ call = NoCall
    /\ saving = [c \in Sessions |-> NotSaving]
    /\ highest = [r \in RoomNames |-> [id \in ElementIds |-> 0]]

InitReplay ==
    /\ StoreIdle
    /\ allow_anonymous = FALSE
    /\ SessionsIdle
    /\ log \in ReplayLogs
    /\ ReplayIdle

ReplayNext ==
    \/ \E room_name \in RoomNames, staff \in BOOLEAN : replay_connect(room_name, staff)
    \/ init_replay_done
    \/ start_replay
    \/ pause_replay
    \/ restart_replay
    \/ replay_disconnect
    \/ \E t \in BagToSet(tasks) : wait_then_send(t)
    \/ \E t \in BagToSet(tasks) : pop_next_event(t)
    \/ \E t \in BagToSet(tasks), fresh \in Names : send_next_event(t, fresh)
    \/ \E t \in BagToSet(tasks) : reschedule(t)

SpecReplay == InitReplay /\ [][ReplayNext]_vars

\* a step of a playback loop
TaskStep ==
    \E t \in BagToSet(tasks) :
        \/ wait_then_send(t)
        \/ pop_next_event(t)
        \/ (\E fresh \in Names : send_next_event(t, fresh))
        \/ reschedule(t)

\* The event loop runs a task that is ready, the data base answers every
\* query and every delay ends: the handler that awaits the record ids goes
\* on, and as long as there is a playback task one of them takes a step.
\* Nothing obliges the observer to send a control event or to disconnect.
SpecReplayFair ==
    SpecReplay /\ WF_vars(init_replay_done) /\ WF_vars(TaskStep)

(***************************************************************************)
(* The reconciler's properties (SpecSave).                                 *)
(***************************************************************************)
Saved == call.op = "save_room"

\* the snapshot of the room of the last call, as it is now
Persisted == rooms[call.room_name].elements

\* the version the reconciler reads for id in a snapshot (0: the id is not in it)
VersionIn(elements, id) == old_room_versions(elements, id, 0)

\* the submitted elements that are not tombstones
Live(elements) == {elements[i] : i \in {j \in 1..Len(elements) : ~elements[j].isDeleted}}

\* C1 as stated: once an id has been persisted with version v, no later
\* persisted snapshot of the room holds the id with a version lower than v.
C1_VersionNeverDecreases ==
    \A r \in RoomNames, id \in ElementIds :
        LET v == VersionIn(rooms[r].elements, id)
        IN  v # 0 => v >= highest[r][id]

\* C1 amended: one save_room call never lowers the version of an id that is in
\* the persisted snapshot both before and after the call.
C1_NoDecreaseAcrossOneSave ==
    Saved => \A id \in ElementIds :
                LET before == VersionIn(call.old, id)
                    after == VersionIn(Persisted, id)
                IN  (before # 0 /\ after # 0) => after >= before

\* C1 witness: an accepted submission raised the version of an id already persisted
C1_Witness ==
    /\ Saved /\ call.written
    /\ \E id \in ElementIds :
          /\ VersionIn(call.old, id) # 0
          /\ VersionIn(Persisted, id) > VersionIn(call.old, id)

\* a live submitted element is older than the persisted element of the same id
HasStale(old, elements) ==
    \E e \in Live(elements) : e.version < old_room_versions(old, e.id, -1)

\* a live submitted element is newer than the persisted one of its id, or new
HasNewer(old, elements) ==
    \E e \in Live(elements) : e.version > old_room_versions(old, e.id, -1)

\* C2: a submission to an existing room with one stale live element, wherever
\* it stands in the list, leaves the persisted snapshot entirely unchanged.
C2_AllOrNothing ==
    (Saved /\ ~call.created /\ HasStale(call.old, call.elements))
        => (~call.written /\ Persisted = call.old)

\* C2 witness: a rejected submission whose stale element comes after a newer
\* or new one
C2_Witness ==
    /\ Saved /\ ~call.created /\ ~call.written
    /\ Len(call.elements) = 2
    /\ ~call.elements[1].isDeleted /\ ~call.elements[2].isDeleted
    /\ call.elements[1].version > old_room_versions(call.old, call.elements[1].id, -1)
    /\ call.elements[2].version < old_room_versions(call.old, call.elements[2].id, -1)
    /\ Persisted = call.old

\* C3: no persisted snapshot holds a tombstone, and a submitted tombstone is
\* not written by its submission.
C3_NoTombstonePersisted ==
    /\ \A r \in RoomNames : \A i \in 1..Len(rooms[r].elements) :
          ~rooms[r].elements[i].isDeleted
    /\ (Saved /\ call.written) =>
          \A i \in 1..Len(call.elements) :
             call.elements[i].isDeleted =>
                \A j \in 1..Len(Persisted) : Persisted[j] # call.elements[i]

\* C3 witness: an accepted submission that held a tombstone beside a live element
C3_Witness ==
    /\ Saved /\ call.written
    /\ \E i \in 1..Len(call.elements) : call.elements[i].isDeleted
    /\ Persisted # <<>>

\* C4: a submission whose live elements all have the persisted version of
\* their id calls no upsert and leaves the persisted snapshot as it was.
C4_NoWriteOnEquality ==
    (Saved /\ \A e \in Live(call.elements) :
                 e.version = old_room_versions(call.old, e.id, -1))
        => (~call.written /\ Persisted = call.old)

\* C4 witness: the snapshot just accepted is submitted again
C4_Witness ==
    /\ Saved /\ ~call.written
    /\ call.elements = call.old
    /\ Len(call.elements) = Cardinality(ElementIds)
    /\ Persisted = call.old

\* C5 as stated: the first save of a room without a record persists the live
\* elements of the submission.
C5_FirstSavePersists ==
    (Saved /\ call.created /\ Live(call.elements) # {})
        => Persisted = NotDeleted(call.elements)

\* the ids of the elements of a collection
IdsOf(elements) == {elements[i].id : i \in 1..Len(elements)}

\* C14: a submission to an existing room with no stale live element and at
\* least one newer or new one is written, and the persisted collection is then
\* the submitted list without its tombstones, in the submitted order: a
\* persisted element whose id is not among the live submitted ones is gone.
C14_WholesaleOverwrite ==
    (Saved /\ ~call.created /\ ~HasStale(call.old, call.elements)
           /\ HasNewer(call.old, call.elements))
        => /\ call.written
           /\ Persisted = NotDeleted(call.elements)
           /\ IdsOf(Persisted) = {e.id : e \in Live(call.elements)}

\* C14 witness: an accepted submission with a live element dropped a persisted
\* element it did not hold
C14_Witness ==
    /\ Saved /\ ~call.created /\ call.written
    /\ Persisted # <<>>
    /\ \E id \in IdsOf(call.old) : id \notin IdsOf(Persisted)

\* the last save_room call wrote, and lowered the persisted version of an id
LoweredByWrite ==
    /\ Saved /\ call.written
    /\ \E id \in ElementIds :
          /\ VersionIn(Persisted, id) > 0
          /\ VersionIn(Persisted, id) < VersionIn(call.before, id)

\* C15: save_room calls of two sessions interleave between read and write,
\* and a write lowers the persisted version of an element only when the
\* snapshot its submission was compared with was no longer the persisted one.
C15_LoweredOnlyByStaleWrite ==
    LoweredByWrite => call.old # call.before

\* C15 witness: the race: a submission that was compared with a stale read
\* has overwritten a newer snapshot and lowered the version of an element
C15_Witness ==
    /\ LoweredByWrite
    /\ call.old # call.before
    /\ \A id \in ElementIds : VersionIn(call.old, id) <= VersionIn(call.before, id)

(***************************************************************************)
(* The room sessions' properties (SpecCollab, SpecCollabFair).             *)
(***************************************************************************)
\* the numbers the multicast events of one behaviour can have: the clients'
\* events and one collaborator_left per session
EventNumbers == 1..(MaxEvents + Cardinality(Sessions))

\* session c has sent the notification of event n to its client
Forwarded(n, c) == \E i \in 1..Len(outbox[c]) : outbox[c][i].ev = n

\* c was registered in the group event n was multicast to, and did not send it
Recipient(n, c) ==
    /\ n <= Len(multicast)
    /\ c \in multicast[n].group
    /\ c # multicast[n].sender

Open(c) == sess[c].state = "open"
Closed(c) == sess[c].state = "closed"

\* C6 as stated: every session registered at multicast time other than the
\* sender forwards the notification; stated for the sessions that have gone,
\* which can forward nothing any more.
C6_EveryRegisteredPeerForwards ==
    \A n \in EventNumbers, c \in Sessions :
        (Recipient(n, c) /\ Closed(c)) => Forwarded(n, c)

\* C6 amended: only sessions registered at multicast time other than the
\* sender forward the notification, each at most once, and each of them
\* eventually forwards it unless its connection ends first.
C6_EchoSuppression ==
    /\ [](\A n \in EventNumbers, c \in Sessions :
            /\ Forwarded(n, c) => Recipient(n, c)
            /\ Cardinality({i \in 1..Len(outbox[c]) : outbox[c][i].ev = n}) <= 1)
    /\ \A n \in EventNumbers, c \in Sessions :
            Recipient(n, c) ~> (Forwarded(n, c) \/ Closed(c))

\* C6 witness: a client's event was forwarded by the other session of the room
\* while its sender has taken its own envelope and forwarded nothing
C6_Witness ==
    \E n \in EventNumbers, c \in Sessions :
        /\ Recipient(n, c) /\ Forwarded(n, c)
        /\ multicast[n].eventtype = "elements_changed"
        /\ multicast[n].sender \in multicast[n].group
        /\ Open(multicast[n].sender)
        /\ channel[multicast[n].sender] = <<>>
        /\ outbox[multicast[n].sender] = <<>>

\* the connection attempt of c was one that connect refuses: anonymous access
\* disabled, the user neither authenticated nor authorized
RefusedAttempt(c) ==
    /\ sess[c].state # "new"
    /\ ~allow_anonymous
    /\ ~user_is_authenticated(sess[c].user)
    /\ ~sess[c].authorized

\* C7: a refused connection attempt gets exactly one login_required and then
\* the close with code 3000; the session is never in a group and no
\* collaborator_left (no event at all) is multicast in its name.
C7_AnonymousDisallowed ==
    \A c \in Sessions : RefusedAttempt(c) =>
        /\ outbox[c] = <<Sent("login_required", 0, 0), Sent("close", 0, 3000)>>
        /\ \A r \in RoomNames : c \notin groups[r]
        /\ \A n \in 1..Len(multicast) : multicast[n].sender # c
        /\ \A p \in Sessions : \A i \in 1..Len(outbox[p]) :
              outbox[p][i].eventtype = "collaborator_left"
                 => multicast[outbox[p][i].ev].sender # c

\* C7 witness: a refused connection has ended, its disconnect handler was
\* called with a code other than 3000, and a peer is open in the same room
C7_Witness ==
    \E c, p \in Sessions :
        /\ RefusedAttempt(c) /\ Closed(c)
        /\ Open(p) /\ sess[p].room_name = sess[c].room_name
        /\ multicast = <<>>

\* c and d are two sessions connected to the same room at the same time
Together(c, d) ==
    /\ c # d
    /\ Open(c) /\ Open(d)
    /\ sess[c].room_name = sess[d].room_name

\* C8 as stated: two sessions connected to one room at the same time have the
\* same user_room_id only if both are anonymous sessions with random pseudonyms.
C8_UniqueUnlessAnonymous ==
    \A c, d \in Sessions :
        (Together(c, d) /\ sess[c].user_room_id = sess[d].user_room_id)
            => (sess[c].user = Anonymous /\ sess[d].user = Anonymous)

\* C8 amended: two sessions connected to one room at the same time have the
\* same user_room_id only if they are sessions of the same user, or both
\* anonymous sessions with random pseudonyms; an admitted session always has one.
C8_SharedOnlyBySameUser ==
    /\ \A c \in Sessions : Open(c) => sess[c].user_room_id # Unset
    /\ \A c, d \in Sessions :
        (Together(c, d) /\ sess[c].user_room_id = sess[d].user_room_id)
            => sess[c].user = sess[d].user

\* C8 witness: two connections of one known user in one room, with one pseudonym
C8_Witness ==
    \E c, d \in Sessions :
        /\ Together(c, d)
        /\ sess[c].user \in Users /\ sess[c].user = sess[d].user
        /\ sess[c].user_room_id = sess[d].user_room_id

\* C13: no handler of the room sessions (connect, disconnect,
\* elements_changed, full_sync, collaborator_change, notify_client) changes
\* the persisted element collection of any room; connect may create the
\* record of a room, with no elements.
C13_SnapshotUntouchedBySessions ==
    [][\A r \in RoomNames : rooms'[r].elements = rooms[r].elements]_vars

\* C13 witness: a full_sync with a scene other than the persisted snapshot
\* of its room was multicast and logged, and the snapshot is still there
C13_Witness ==
    \E i \in 1..Len(multicast), k \in 1..Len(log) :
        /\ multicast[i].eventtype = "full_sync"
        /\ log[k].event_type = "full_sync"
        /\ log[k].content = multicast[i].args
        /\ rooms[multicast[i].room_name].elements = Snapshot
        /\ multicast[i].args # Snapshot

\* the user of connection c is neither authenticated nor authorized for the
\* room, and anonymous visits are disallowed
Unwelcome(c) ==
    ~allow_anonymous /\ ~user_is_authenticated(sess[c].user) /\ ~sess[c].authorized

\* the client of c was told login_required
ToldLoginRequired(c) ==
    \E i \in 1..Len(outbox[c]) : outbox[c][i].eventtype = "login_required"

Leave(n) == n <= Len(multicast) /\ multicast[n].eventtype = "collaborator_left"

\* C17 as stated: every other session registered when a collaborator_left is
\* multicast receives it exactly once; stated for the sessions that have
\* gone, which can receive nothing any more.
C17_EveryPeerReceivesLeave ==
    \A n \in EventNumbers, c \in Sessions :
        (Leave(n) /\ Recipient(n, c) /\ Closed(c))
            => Cardinality({i \in 1..Len(outbox[c]) : outbox[c][i].ev = n}) = 1

\* C17 amended: when an admitted session disconnects with a code other than 3000,
\* one collaborator_left with its user_room_id is multicast to the room's
\* group while the session is still registered, the notification is put
\* once on the channel of every other registered session whose connection is
\* open, and the session is no longer in the group afterwards; no session
\* forwards the notification twice, and every such session forwards it unless
\* its own connection ends first.
C17_LeaveBroadcast ==
    /\ [][\A c \in Sessions, code \in CloseCodes \ {3000} :
            (Open(c) /\ disconnect(c, code)) =>
                LET n == Len(multicast) + 1
                    r == sess[c].room_name
                IN  /\ Len(multicast') = n
                    /\ multicast'[n].eventtype = "collaborator_left"
                    /\ multicast'[n].args = sess[c].user_room_id
                    /\ multicast'[n].sender = c
                    /\ multicast'[n].group = groups[r]
                    /\ c \in multicast'[n].group
                    /\ \A d \in groups[r] \ {c} :
                          Open(d) => channel'[d] = Append(channel[d], [sender |-> c, ev |-> n])
                    /\ \A q \in RoomNames : c \notin groups'[q]]_vars
    /\ [](\A n \in EventNumbers, c \in Sessions :
            Leave(n) => Cardinality({i \in 1..Len(outbox[c]) : outbox[c][i].ev = n}) <= 1)
    /\ \A n \in EventNumbers, c \in Sessions :
            (Leave(n) /\ Recipient(n, c)) ~> (Forwarded(n, c) \/ ~Open(c))

\* C17 witness: the other session of the room has forwarded the
\* collaborator_left of a session that has gone and is in no group any more
C17_Witness ==
    \E n \in EventNumbers, c \in Sessions :
        /\ Leave(n) /\ Recipient(n, c) /\ Forwarded(n, c)
        /\ Open(c)
        /\ Closed(multicast[n].sender)
        /\ multicast[n].sender \in multicast[n].group
        /\ multicast[n].args = sess[multicast[n].sender].user_room_id
        /\ \A q \in RoomNames : multicast[n].sender \notin groups[q]

\* C18: a collaborator_change batch of n changes appends n records to the
\* log, in the order of the batch, each of type collaborator_change with the
\* sender's user_room_id as pseudonym and the change without its username and
\* time as content; no step changes or removes a record the log holds.
C18_AuditLog ==
    [][/\ Len(log') >= Len(log)
       /\ SubSeq(log', 1, Len(log)) = log
       /\ \A c \in Sessions, changes \in Batches :
             collaborator_change(c, changes, TRUE) =>
                /\ Len(log') = Len(log) + Len(changes)
                /\ \A i \in 1..Len(changes) :
                      LET record == log'[Len(log) + i]
                      IN  /\ record.event_type = "collaborator_change"
                          /\ record.user_pseudonym = sess[c].user_room_id
                          /\ record.room_name = sess[c].room_name
                          /\ DOMAIN record.content = {"pointer"}
                          /\ record.content.pointer = changes[i].pointer]_vars

\* C18 witness: the two records of a batch of two changes, one with a time,
\* are in the log in the order of the batch
C18_Witness ==
    \E k \in 1..Len(log) :
        /\ k < Len(log)
        /\ log[k].event_type = "collaborator_change"
        /\ log[k + 1].event_type = "collaborator_change"
        /\ log[k].content.pointer = 1
        /\ log[k + 1].content.pointer = 2
        /\ log[k + 1].created_at = 7
        /\ log[k].user_pseudonym # Unset

\* the collaborator_change events that were multicast
ChangeEvents == {n \in 1..Len(multicast) : multicast[n].eventtype = "collaborator_change"}

\* C19 as stated: the changes list of a multicast collaborator_change has one
\* entry, which carries the sender's user_room_id as userRoomId and neither
\* the username nor the time the client sent.
C19_BroadcastWithoutInboundFields ==
    \A n \in ChangeEvents :
        /\ Len(multicast[n].args) = 1
        /\ multicast[n].args[1].userRoomId = sess[multicast[n].sender].user_room_id
        /\ "username" \notin DOMAIN multicast[n].args[1]
        /\ "time" \notin DOMAIN multicast[n].args[1]

\* C19 amended: a collaborator_change batch is multicast as one notification
\* whose changes list has one entry: the last change of the batch as the
\* client sent it, username and time included, with userRoomId set to the
\* sender's user_room_id; whether or not the log write succeeds.
C19_BroadcastOfLastChange ==
    [][\A c \in Sessions, changes \in Batches, ok \in BOOLEAN :
          collaborator_change(c, changes, ok) =>
             LET n == Len(multicast) + 1
                 last == changes[Len(changes)]
             IN  /\ Len(multicast') = n
                 /\ multicast'[n].eventtype = "collaborator_change"
                 /\ multicast'[n].sender = c
                 /\ Len(multicast'[n].args) = 1
                 /\ DOMAIN multicast'[n].args[1] = DOMAIN last \cup {"userRoomId"}
                 /\ \A k \in DOMAIN last : multicast'[n].args[1][k] = last[k]
                 /\ multicast'[n].args[1].userRoomId = sess[c].user_room_id]_vars

\* C19 witness: of a batch of two changes the second, with its username and
\* its time, was multicast, and the other session of the room has forwarded it
C19_Witness ==
    \E n \in ChangeEvents, c \in Sessions :
        /\ multicast[n].args[1].pointer = 2
        /\ multicast[n].args[1].username = "ann"
        /\ multicast[n].args[1].time = 7
        /\ Recipient(n, c) /\ Forwarded(n, c)

\* the step multicasts one event of type eventtype of session c and puts its
\* notification on the channel of every other registered session that is open
Broadcasts(c, eventtype) ==
    LET n == Len(multicast) + 1
    IN  /\ Len(multicast') = n
        /\ multicast'[n].eventtype = eventtype
        /\ multicast'[n].sender = c
        /\ multicast'[n].group = groups[sess[c].room_name]
        /\ \A d \in groups[sess[c].room_name] \ {c} :
              Open(d) => channel'[d] = Append(channel[d], [sender |-> c, ev |-> n])

\* C20: when the log write of an elements_changed, full_sync or
\* collaborator_change event fails, nothing is logged and the event is
\* multicast to the sessions of the room all the same.
C20_BroadcastDespiteFailedWrite ==
    [][/\ \A c \in Sessions, elements \in Scenes :
             /\ elements_changed(c, "elements_changed", elements, FALSE)
                   => (log' = log /\ Broadcasts(c, "elements_changed"))
             /\ full_sync(c, "full_sync", elements, FALSE)
                   => (log' = log /\ Broadcasts(c, "full_sync"))
       /\ \A c \in Sessions, changes \in Batches :
             collaborator_change(c, changes, FALSE)
                => (log' = log /\ Broadcasts(c, "collaborator_change"))]_vars

\* C20 witness: nothing was logged, and yet the other session of the room has
\* forwarded the event of a client to its own
C20_Witness ==
    \E n \in EventNumbers, c \in Sessions :
        /\ log = <<>>
        /\ Recipient(n, c) /\ Forwarded(n, c)
        /\ multicast[n].eventtype \in {"elements_changed", "full_sync", "collaborator_change"}

(***************************************************************************)
(* The replay session's properties (SpecReplay, SpecReplayFair).           *)
(***************************************************************************)
\* the places of the replayed records in what the observer got since the last
\* reset_scene
Replayed == {i \in 1..Len(observer) : observer[i].id # 0}

\* C9 as stated: between one reset_scene and the next, the replayed records
\* reach the observer in strictly ascending order of their ids.
C9_ReplayInIdOrder ==
    \A i, j \in Replayed : i < j => observer[i].id < observer[j].id

\* C10: every collaborator_change entry sent to the observer carries the
\* stored pseudonym of its record as userRoomId and a generated name, and two
\* entries with the same pseudonym carry the same name, whenever they were sent.
C10_PseudonymStability ==
    /\ \A m \in shown :
          /\ m.userRoomId = log[m.id].user_pseudonym
          /\ m.username \in Names
    /\ \A m1, m2 \in shown :
          m1.userRoomId = m2.userRoomId => m1.username = m2.username

\* C10 witness: after a restart the first record of a pseudonym was replayed
\* again, and another record of the same pseudonym was replayed before the
\* restart only
C10_Witness ==
    \E m1, m2 \in shown :
        /\ m1.id # m2.id
        /\ m1.userRoomId = m2.userRoomId
        /\ \E i \in Replayed : observer[i] = m1
        /\ \A i \in Replayed : observer[i].id # m2.id
        /\ controls = 1

\* no playback task is left: every loop has ended or was cancelled, and no
\* shielded send is under way
NoPlaybackTask == tasks = EmptyBag

\* C11 as stated: pause_replay received while no playback task is active
\* changes neither the record list nor the play position and sends nothing to
\* the observer.
C11_PauseWithoutTaskIsNoOp ==
    [][(pause_replay /\ NoPlaybackTask)
          => /\ observer' = observer
             /\ replay'.log_record_ids = replay.log_record_ids]_vars

\* the ids of the records of the replayed room, in ascending order
RoomRecordIds == get_log_record_ids_for_room(replay.room_name)

\* the first replayed record the observer got since the last reset_scene
FirstReplayed == observer[CHOOSE i \in Replayed : \A j \in Replayed : i <= j]

\* C12 as stated (its second half): the first replayed record sent to the
\* observer after the reset_scene of restart_replay is the room's lowest-id
\* record.
C12_RestartResetsPlayback ==
    (reset_by = "restart_replay" /\ Replayed # {})
        => FirstReplayed.id = Head(RoomRecordIds)

\* a replayed record is sent to the observer in the step
RecordSent ==
    /\ observer' # observer
    /\ observer'[Len(observer')].id # 0

\* a playback loop schedules its next round in the step
Rescheduled == \E t \in BagToSet(tasks) : reschedule(t)

\* C21 as stated: from the pause_replay or disconnect that cancelled the
\* playback until a start_replay or restart_replay is received, no replayed
\* record is sent to the observer and no playback loop reschedules itself.
C21_CancellationStopsPlayback ==
    [][(halted_by # "none" /\ halted_by' = halted_by)
          => (~RecordSent /\ ~Rescheduled)]_vars

\* the playback loops that are scheduled or running: the wait_then_send tasks
\* that have not ended and were not cancelled
ActiveLoops == {t \in BagToSet(tasks) : t.w \in {"ready", "shield", "sleep"}}

\* C24 as stated: a replay session has at most one scheduled or running
\* wait_then_send task, and replay_task refers to it.
C24_SinglePlaybackLoop ==
    /\ \A t, u \in ActiveLoops : t = u /\ tasks[t] = 1
    /\ \A t \in ActiveLoops : t.handle

\* init_replay has assigned the record list: the playback task is created
\* only after it (lines 252-253, 265-266)
Loaded == replay.replay_task # Unset

\* C23 as stated: a start_replay control event received once the record list
\* was loaded starts no fetch of the record list and sends no reset_scene: it
\* sends the start_replay notification only, so that what the observer was
\* sent since the last restart stays and the play position with it.
C23_StartResumes ==
    [][(start_replay /\ Loaded)
          => /\ handler'.pc # "init"
             /\ reset_by' = reset_by
             /\ observer' = Append(observer, Notice("start_replay"))]_vars

\* how often the record id was sent to the observer since the last reset_scene
TimesSent(id) == Cardinality({i \in Replayed : observer[i].id = id})

\* the pause_replay notifications the observer got since the last reset_scene
Pauses == {i \in 1..Len(observer) : observer[i].eventtype = "pause_replay"}

\* the replay has run to its end: every record id of the room was sent once
\* and no other, one pause_replay came after them, the list is used up and no
\* playback task is left
Finished ==
    /\ \A id \in 1..Len(log) :
          TimesSent(id) = IF log[id].room_name = replay.room_name THEN 1 ELSE 0
    /\ Pauses = {Len(observer)}
    /\ replay.log_record_ids = <<>>
    /\ NoPlaybackTask

\* a control event or the disconnect has arrived
Disturbed == controls > 0 \/ replay.state = "closed"

\* C22: the replay an admitted observer's connect starts reaches its end
\* (every loaded record id sent exactly once, then one pause_replay, no task
\* left), unless a control event or the disconnect arrives.
C22_ReplayTerminates == (replay.state = "open") ~> (Finished \/ Disturbed)

\* C22 witness: the replay of a room with several records has run to its end
\* with no control event and no disconnect
C22_Witness ==
    /\ replay.state = "open"
    /\ ~Disturbed
    /\ Finished
    /\ Len(RoomRecordIds) > 1

=============================================================================
